---- MODULE Spec2Model ----
(***************************************************************************)
(* Heuristic search on the grid "maze" collection game.                    *)
(*   section3.rs : MazeState (one character, action driven) with the       *)
(*                 random / greedy / beam / chokudai action searches.      *)
(*   section4.rs : AutoMoveMazeState (several characters, greedy auto      *)
(*                 move) with hill climbing and simulated annealing.       *)
(* Grids, turn limits and character counts are scaled down; the code of    *)
(* every operation is kept as written.                                     *)
(***************************************************************************)
EXTENDS Integers, Sequences, FiniteSets, Bags, TLC

\* ---------------------------------------------------------------- bounds
HEIGHT == 3
WIDTH == 3
END_TURN == 3
CHARACTER_N == 2
\* cell values are drawn from 0..MaxPoint (the code draws from 0..9)
MaxPoint == 2
\* an initial grid has at most MaxRich non-zero cells
MaxRich == 2

\* ------------------------------------------------------- program constants
INF == 1000000000
\* Option::None of an Option<usize>
None == -1

dx == <<1, -1, 0, 0>>
dy == <<0, 0, 1, -1>>

VARIABLES
    mode,        \* which driver is running
    pc,          \* position of the driver
    state,       \* the MazeState of the episode
    auto,        \* the AutoMoveMazeState of the rollout
    root,        \* the state a search was called with
    result,      \* the action a search returned
    beam_width,  \* arguments of the search
    beam_depth,
    now_beam,    \* beam search: the frontier being popped
    next_beam,   \* beam search: the frontier being built
    best_state,  \* beam search: best_state
    d,           \* beam search: rounds completed
    w,           \* pops made at the current round or depth
    completed,   \* history: the frontier as the last completed round left it
    beam_number, \* chokudai search: argument
    beam,        \* chokudai search: the frontiers of depth 0..beam_depth
    t,           \* chokudai search: depth being swept
    pass,        \* chokudai search: passes completed
    number,      \* local search: argument
    now_auto,    \* local search: now_state, the current placement
    now_score,   \* simulated annealing: its score
    best_score,  \* local search: best_score
    best_auto,   \* simulated annealing: best_state
    next_auto,   \* local search: next_state, the last candidate
    next_score,  \* local search: its score
    iter,        \* local search: iterations done
    initial_score, \* history: the score of the initial placement
    max_seen     \* history: the largest score of any placement generated

args == <<beam_width, beam_depth, beam_number>>

chokudaiVars == <<beam, t, pass>>

searchVars == <<root, result, args, now_beam, next_beam, best_state, d, w,
                completed, chokudaiVars>>

localVars == <<number, now_auto, now_score, best_score, best_auto, next_auto,
               next_score, iter, initial_score, max_seen>>

vars == <<mode, pc, state, auto, searchVars, localVars>>

\* ------------------------------------------------------------- arithmetic
\* usize::checked_add_signed: None when the sum leaves the usize range
\* (the upper end, 2^64 - 1, is out of reach of a grid coordinate + 1)
checked_add_signed(v, rhs) == IF v + rhs < 0 THEN None ELSE v + rhs

unwrap_or(o, default) == IF o = None THEN default ELSE o

Rows == 0 .. (HEIGHT - 1)
Cols == 0 .. (WIDTH - 1)
Cells == Rows \X Cols

RECURSIVE SumOver(_, _)
SumOver(points, cells) ==
    IF cells = {} THEN 0
    ELSE LET c == CHOOSE c \in cells : TRUE
         IN points[c[1]][c[2]] + SumOver(points, cells \ {c})

\* sum of the values left on the grid
SumGrid(points) == SumOver(points, Cells)

\* ---------------------------------------------------------------- grids
\* the grid with value f[c] on the cells of S and 0 elsewhere
GridOf(S, f) ==
    [y \in Rows |-> [x \in Cols |-> IF <<y, x>> \in S THEN f[<<y, x>>] ELSE 0]]

\* the grids an episode may start from
Grids ==
    UNION { { GridOf(S, f) : f \in [S -> 1 .. MaxPoint] } :
            S \in { T \in SUBSET Cells : Cardinality(T) <= MaxRich } }

Coord(x, y) == [x |-> x, y |-> y]

InBounds(c) == c.y >= 0 /\ c.y < HEIGHT /\ c.x >= 0 /\ c.x < WIDTH

\* ------------------------------------------------------------- MazeState
\* MazeState::new: a random character cell, which holds 0, random values
\* elsewhere, no score, no first action, turn 0
NewMazeStates ==
    { [character |-> Coord(c[2], c[1]), game_score |-> 0, evaluated_score |-> 0,
       first_action |-> None, points |-> g, turn |-> 0] :
      <<c, g>> \in { p \in Cells \X Grids : p[2][p[1][1]][p[1][2]] = 0 } }

\* is_done that lets the last turn through
is_done_late(s) == s.turn > END_TURN

is_done(s) == s.turn = END_TURN

\* legal_actions with the bound test written <= instead of <
legal_actions_le(s) ==
    LET ty(act) == unwrap_or(checked_add_signed(s.character.y, dy[act + 1]), HEIGHT)
        tx(act) == unwrap_or(checked_add_signed(s.character.x, dx[act + 1]), WIDTH)
        ok(act) == ty(act) <= HEIGHT /\ tx(act) <= WIDTH
    IN SelectSeq(<<0, 1, 2, 3>>, ok)

legal_actions(s) ==
    LET ty(act) == unwrap_or(checked_add_signed(s.character.y, dy[act + 1]), HEIGHT)
        tx(act) == unwrap_or(checked_add_signed(s.character.x, dx[act + 1]), WIDTH)
        ok(act) == ty(act) < HEIGHT /\ tx(act) < WIDTH
    IN SelectSeq(<<0, 1, 2, 3>>, ok)

\* advance that adds the point but leaves it on the cell
advance_keep(s, action) ==
    LET x == unwrap_or(checked_add_signed(s.character.x, dx[action + 1]), 0)
        y == unwrap_or(checked_add_signed(s.character.y, dy[action + 1]), 0)
    IN IF ~InBounds(Coord(x, y))
       THEN [s EXCEPT !.character = Coord(x, y)]
       ELSE LET point == s.points[y][x]
            IN [s EXCEPT !.character = Coord(x, y),
                         !.game_score = IF 0 < point THEN @ + point ELSE @,
                         !.turn = @ + 1]

\* advance: move, collect the destination cell and zero it, count the turn.
\* Indexing points outside the grid panics after the character was moved:
\* the state at the panic is the one returned, the caller records the panic.
advance(s, action) ==
    LET x == unwrap_or(checked_add_signed(s.character.x, dx[action + 1]), 0)
        y == unwrap_or(checked_add_signed(s.character.y, dy[action + 1]), 0)
    IN IF ~InBounds(Coord(x, y))
       THEN [s EXCEPT !.character = Coord(x, y)]
       ELSE LET point == s.points[y][x]
            IN [s EXCEPT !.character = Coord(x, y),
                         !.game_score = IF 0 < point THEN @ + point ELSE @,
                         !.points = IF 0 < point THEN [@ EXCEPT ![y][x] = 0] ELSE @,
                         !.turn = @ + 1]

evaluate_score(s) == [s EXCEPT !.evaluated_score = s.game_score]

\* ----------------------------------------------------- AutoMoveMazeState
CharIds == 1 .. CHARACTER_N

\* every placement init_characters, transition and random_action can produce
Placements == [CharIds -> { Coord(c[2], c[1]) : c \in Cells }]

\* AutoMoveMazeState::new followed by a placement of the characters
NewAutoStates ==
    { [game_score |-> 0, evaluated_score |-> 0, points |-> g, turn |-> 0,
       characters |-> p] : g \in Grids, p \in Placements }

auto_is_done(s) == s.turn = END_TURN

\* the scan of move_player over the actions action..3
RECURSIVE best_action_scan(_, _, _, _, _)
best_action_scan(points, c, action, best_point, best_action_index) ==
    IF action = 4 THEN best_action_index
    ELSE LET ty == unwrap_or(checked_add_signed(c.y, dy[action + 1]), HEIGHT)
             tx == unwrap_or(checked_add_signed(c.x, dx[action + 1]), WIDTH)
         IN IF ty < HEIGHT /\ tx < WIDTH /\ best_point < points[ty][tx]
            THEN best_action_scan(points, c, action + 1, points[ty][tx], action)
            ELSE best_action_scan(points, c, action + 1, best_point, best_action_index)

\* move_player: step onto the first neighbour holding the largest value
move_player(s, id) ==
    LET c == s.characters[id]
        best == best_action_scan(s.points, c, 0, -INF, 0)
    IN [s EXCEPT !.characters[id] =
            Coord(c.x + dx[best + 1], c.y + dy[best + 1])]

RECURSIVE move_all(_, _)
move_all(s, id) ==
    IF id > CHARACTER_N THEN s ELSE move_all(move_player(s, id), id + 1)

\* the collection loop of advance, characters id..CHARACTER_N
RECURSIVE collect_all(_, _)
collect_all(s, id) ==
    IF id > CHARACTER_N THEN s
    ELSE LET c == s.characters[id]
             point == s.points[c.y][c.x]
         IN collect_all([s EXCEPT !.game_score = @ + point,
                                  !.points[c.y][c.x] = 0], id + 1)

auto_advance(s) ==
    [collect_all(move_all(s, 1), 1) EXCEPT !.turn = @ + 1]

\* the first loop of get_score: the cells under the characters are cleared
RECURSIVE clear_under(_, _)
clear_under(s, id) ==
    IF id > CHARACTER_N THEN s
    ELSE LET c == s.characters[id]
         IN clear_under([s EXCEPT !.points[c.y][c.x] = 0], id + 1)

RECURSIVE rollout(_)
rollout(s) == IF auto_is_done(s) THEN s ELSE rollout(auto_advance(s))

get_score(s) == rollout(clear_under(s, 1)).game_score

\* ------------------------------------------------------------- greedy
\* greedy_action whose comparison is <= : the last maximum wins
RECURSIVE greedy_scan_le(_, _, _, _, _)
greedy_scan_le(s, acts, k, best_eval, best_action) ==
    IF k > Len(acts) THEN best_action
    ELSE LET now_state == evaluate_score(advance(s, acts[k]))
         IN IF best_eval <= now_state.evaluated_score
            THEN greedy_scan_le(s, acts, k + 1, now_state.evaluated_score, acts[k])
            ELSE greedy_scan_le(s, acts, k + 1, best_eval, best_action)

\* the loop of greedy_action over acts[k..]; best_eval is its best_score
RECURSIVE greedy_scan(_, _, _, _, _)
greedy_scan(s, acts, k, best_eval, best_action) ==
    IF k > Len(acts) THEN best_action
    ELSE LET now_state == evaluate_score(advance(s, acts[k]))
         IN IF best_eval < now_state.evaluated_score
            THEN greedy_scan(s, acts, k + 1, now_state.evaluated_score, acts[k])
            ELSE greedy_scan(s, acts, k + 1, best_eval, best_action)

\* None stands for the failed assert_ne!(best_action, None)
greedy_action(s) == greedy_scan(s, legal_actions(s), 1, -INF, None)

\* ------------------------------------------------- BinaryHeap<MazeState>
\* A heap is the bag of its nodes. Ord compares evaluated_score alone, so
\* peek and pop may yield any node of the largest evaluated_score.
heap_top(h) ==
    { n \in BagToSet(h) :
        \A m \in BagToSet(h) : m.evaluated_score <= n.evaluated_score }

\* a pop that may take any node, whatever its score
heap_pop_any(h) == BagToSet(h)

\* the nodes pop() may remove
heap_pop(h) == heap_top(h)

heap_is_empty(h) == BagToSet(h) = {}

heap_push(h, n) == h (+) SetToBag({n})

heap_remove(h, n) == h (-) SetToBag({n})

\* the expansion loop with first_action set at every depth
RECURSIVE expand_retag(_, _, _, _, _)
expand_retag(h, now_state, acts, k, depth) ==
    IF k > Len(acts) THEN h
    ELSE LET next_state == evaluate_score(advance(now_state, acts[k]))
         IN expand_retag(heap_push(h, [next_state EXCEPT !.first_action = acts[k]]),
                         now_state, acts, k + 1, depth)

\* the expansion loop with first_action set at depth 1 instead of 0
RECURSIVE expand_late(_, _, _, _, _)
expand_late(h, now_state, acts, k, depth) ==
    IF k > Len(acts) THEN h
    ELSE LET next_state == evaluate_score(advance(now_state, acts[k]))
             tagged == IF depth = 1
                       THEN [next_state EXCEPT !.first_action = acts[k]]
                       ELSE next_state
         IN expand_late(heap_push(h, tagged), now_state, acts, k + 1, depth)

\* the expansion loop: every legal successor of now_state, evaluated, tagged
\* with its action when now_state is the root, pushed on h
RECURSIVE expand(_, _, _, _, _)
expand(h, now_state, acts, k, depth) ==
    IF k > Len(acts) THEN h
    ELSE LET next_state == evaluate_score(advance(now_state, acts[k]))
             tagged == IF depth = 0
                       THEN [next_state EXCEPT !.first_action = acts[k]]
                       ELSE next_state
         IN expand(heap_push(h, tagged), now_state, acts, k + 1, depth)

\* beam_search_action pushing every successor with its own action as tag
beam_push_retag(h, now_state, depth) ==
    expand_retag(h, now_state, legal_actions(now_state), 1, depth)

\* the expansion of now_state in beam_search_action
beam_push(h, now_state, depth) ==
    expand(h, now_state, legal_actions(now_state), 1, depth)

\* the expansion of now_state in beam_search_with_time_threshold_action
tbeam_push(h, now_state, depth) ==
    expand(h, now_state, legal_actions(now_state), 1, depth)

\* the expansion of now_state in chokudai_search_action
chokudai_push(h, now_state, depth) ==
    expand(h, now_state, legal_actions(now_state), 1, depth)

\* chokudai_search_with_time_threshold_action tagging the successors of the
\* depth 1 nodes instead of those of the root
tchokudai_push_late(h, now_state, depth) ==
    expand_late(h, now_state, legal_actions(now_state), 1, depth)

\* chokudai_search_with_time_threshold_action pushing the successors in the
\* else branch of `if t == 0`: those of the root are dropped
tchokudai_push_else(h, now_state, depth) ==
    IF depth = 0 THEN h
    ELSE expand(h, now_state, legal_actions(now_state), 1, depth)

\* the expansion of now_state in chokudai_search_with_time_threshold_action
tchokudai_push(h, now_state, depth) ==
    expand(h, now_state, legal_actions(now_state), 1, depth)

\* ------------------------------------------------------ idle values
IdleMaze ==
    [character |-> Coord(0, 0), game_score |-> 0, evaluated_score |-> 0,
     first_action |-> None, points |-> GridOf({}, <<>>), turn |-> 0]

IdleAuto ==
    [game_score |-> 0, evaluated_score |-> 0, points |-> GridOf({}, <<>>),
     turn |-> 0, characters |-> [i \in CharIds |-> Coord(0, 0)]]

\* no search is running: its locals do not exist
SearchIdle ==
    /\ root = IdleMaze
    /\ result = None
    /\ now_beam = EmptyBag
    /\ next_beam = EmptyBag
    /\ best_state = IdleMaze
    /\ d = 0
    /\ w = 0
    /\ completed = EmptyBag
    /\ beam = <<>>
    /\ t = 0
    /\ pass = 0

NoArguments == beam_width = 0 /\ beam_depth = 0 /\ beam_number = 0

\* no local search is running
LocalIdle ==
    /\ number = 0
    /\ now_auto = IdleAuto
    /\ now_score = 0
    /\ best_score = 0
    /\ best_auto = IdleAuto
    /\ next_auto = IdleAuto
    /\ next_score = 0
    /\ iter = 0
    /\ initial_score = 0
    /\ max_seen = 0

\* ------------------------------------------------------ episode drivers
InitMaze ==
    /\ mode = "maze"
    /\ pc = "run"
    /\ state \in NewMazeStates
    /\ auto = IdleAuto
    /\ SearchIdle
    /\ LocalIdle
    /\ NoArguments

InitAuto ==
    /\ mode = "auto"
    /\ pc = "placed"
    /\ state = IdleMaze
    /\ auto \in NewAutoStates
    /\ SearchIdle
    /\ LocalIdle
    /\ NoArguments

Init == InitMaze \/ InitAuto

\* one turn of the random player: state.advance(random_action(&state))
RandomPlay ==
    /\ mode = "maze"
    /\ pc = "run"
    /\ ~is_done(state)
    /\ \E i \in 1 .. Len(legal_actions(state)) :
          state' = advance(state, legal_actions(state)[i])
    /\ pc' = IF InBounds(state'.character) THEN "run" ELSE "panic"
    /\ UNCHANGED <<mode, auto, searchVars, localVars>>

\* get_score, first loop
RolloutClear ==
    /\ mode = "auto"
    /\ pc = "placed"
    /\ auto' = clear_under(auto, 1)
    /\ pc' = "rolling"
    /\ UNCHANGED <<mode, state, searchVars, localVars>>

\* get_score, one turn of the while loop
RolloutAdvance ==
    /\ mode = "auto"
    /\ pc = "rolling"
    /\ ~auto_is_done(auto)
    /\ auto' = auto_advance(auto)
    /\ UNCHANGED <<mode, pc, state, searchVars, localVars>>

Next == RandomPlay \/ RolloutClear \/ RolloutAdvance

Spec == Init /\ [][Next]_vars

\* ------------------------------------------------------------------ C1
\* C1: in an episode driven only by actions taken from legal_actions(), the
\* character is inside the grid in every state and advance never indexes
\* outside the grid.
LegalActionSoundness ==
    mode = "maze" => (InBounds(state.character) /\ pc # "panic")

\* a move was made and it ended on the far corner, where two of the four
\* actions are illegal
LegalActionWitness ==
    /\ mode = "maze"
    /\ state.turn = END_TURN
    /\ state.character = Coord(WIDTH - 1, HEIGHT - 1)

\* ------------------------------------------------------------------ C2
\* C2: a step never adds to game_score more than it removes from the grid,
\* a cell only ever keeps its value or drops to 0, and a cell that holds 0
\* holds 0 afterwards; so game_score plus the values left never exceeds the
\* values the grid started with.
CollectStep(s, u) ==
    /\ u.game_score - s.game_score <= SumGrid(s.points) - SumGrid(u.points)
    /\ u.game_score >= s.game_score
    /\ \A c \in Cells :
          u.points[c[1]][c[2]] \in {0, s.points[c[1]][c[2]]}

CellSingleCollection ==
    [][CollectStep(state, state') /\ CollectStep(auto, auto')]_vars

\* two characters share a cell after a turn of the rollout in which a value
\* was collected
CellSingleCollectionWitness ==
    /\ mode = "auto"
    /\ auto.turn >= 1
    /\ auto.game_score > 0
    /\ auto.characters[1] = auto.characters[2]

\* ------------------------------------------------------- greedy player
\* the scenario grid: [[0,1,2],[3,4,5],[6,7,8]] in the top left corner
ScenarioGrid ==
    [y \in Rows |-> [x \in Cols |-> IF y < 3 /\ x < 3 THEN 3 * y + x ELSE 0]]

ScenarioState ==
    [character |-> Coord(0, 0), game_score |-> 0, evaluated_score |-> 0,
     first_action |-> None, points |-> ScenarioGrid, turn |-> 0]

InitGreedy ==
    /\ mode = "greedy"
    /\ pc = "run"
    /\ state \in NewMazeStates \cup {ScenarioState}
    /\ auto = IdleAuto
    /\ SearchIdle
    /\ LocalIdle
    /\ NoArguments

\* one turn of the greedy player: state.advance(greedy_action(&state))
GreedyPlay ==
    /\ mode = "greedy"
    /\ pc = "run"
    /\ ~is_done(state)
    /\ root' = state
    /\ result' = greedy_action(state)
    /\ IF result' = None
       THEN pc' = "panic" /\ state' = state
       ELSE /\ state' = advance(state, result')
            /\ pc' = IF InBounds(state'.character) THEN "run" ELSE "panic"
    /\ UNCHANGED <<mode, auto, args, now_beam, next_beam, best_state, d, w,
                   completed, chokudaiVars, localVars>>

NextGreedy == GreedyPlay

SpecGreedy == InitGreedy /\ [][NextGreedy]_vars

\* ------------------------------------------------------------------ C3
Range(seq) == { seq[k] : k \in 1 .. Len(seq) }

\* evaluated score of the one-step successor of s by action a
SuccessorScore(s, a) ==
    LET x == s.character.x + dx[a + 1]
        y == s.character.y + dy[a + 1]
    IN s.game_score + s.points[y][x]

\* C3: the action greedy_action returned is legal in the state it was asked
\* about, no legal action has a successor of higher score, no legal action
\* earlier in the order +x, -x, +y, -y has a successor of equal score, and in
\* the scenario it is +y, the move onto the 3.
GreedyChoosesFirstMaximum ==
    (mode = "greedy" /\ state.turn > 0) =>
        /\ pc # "panic"
        /\ result \in Range(legal_actions(root))
        /\ \A a \in Range(legal_actions(root)) :
              /\ SuccessorScore(root, a) <= SuccessorScore(root, result)
              /\ a < result => SuccessorScore(root, a) < SuccessorScore(root, result)
        /\ (root = ScenarioState => result = 2)

\* the greedy player chose -x where -x and +y tie for the maximum and +x is
\* legal but worse
GreedyTieWitness ==
    /\ mode = "greedy"
    /\ state.turn > 0
    /\ result = 1
    /\ legal_actions(root) = <<0, 1, 2, 3>>
    /\ SuccessorScore(root, 1) = SuccessorScore(root, 2)
    /\ SuccessorScore(root, 0) < SuccessorScore(root, 1)

\* the greedy player answered the scenario
GreedyScenarioReached ==
    mode = "greedy" /\ root = ScenarioState /\ result = 2

\* ------------------------------------------------------- beam search
\* largest beam_width and beam_depth a search is called with
MaxBeamWidth == 2
MaxBeamDepth == 2

\* the frontier and the counters a search starts with; best_state is a
\* MazeState::new() of which only first_action (None) and turn (0) are read
\* before it is overwritten
SearchStart ==
    /\ root' = state
    /\ result' = None
    /\ now_beam' = SetToBag({state})
    /\ next_beam' = EmptyBag
    /\ best_state' = IdleMaze
    /\ d' = 0
    /\ w' = 0
    /\ completed' = EmptyBag
    /\ beam' = <<>>
    /\ t' = 0
    /\ pass' = 0

\* the locals of a search are dropped when its caller goes on
SearchDrop ==
    /\ root' = IdleMaze
    /\ result' = None
    /\ now_beam' = EmptyBag
    /\ next_beam' = EmptyBag
    /\ best_state' = IdleMaze
    /\ d' = 0
    /\ w' = 0
    /\ completed' = EmptyBag
    /\ beam' = <<>>
    /\ t' = 0
    /\ pass' = 0

\* the caller's loop: state.advance(<search>(&state, ..))
Play ==
    /\ pc \in {"returned", "expired"}
    /\ state' = advance(state, result)
    /\ pc' = IF InBounds(state'.character) THEN "idle" ELSE "panic"
    /\ SearchDrop
    /\ UNCHANGED <<mode, auto, args, localVars>>

InitBeam ==
    /\ mode = "beam"
    /\ pc = "idle"
    /\ state \in NewMazeStates
    /\ auto = IdleAuto
    /\ SearchIdle
    /\ LocalIdle
    /\ beam_width \in 1 .. MaxBeamWidth
    /\ beam_depth \in 1 .. MaxBeamDepth
    /\ beam_number = 0

\* beam_search_action, up to the loop
BeamCall ==
    /\ mode = "beam"
    /\ pc = "idle"
    /\ ~is_done(state)
    /\ SearchStart
    /\ pc' = "loop"
    /\ UNCHANGED <<mode, state, auto, args, localVars>>

\* one turn of the inner loop: pop a node, push its successors
BeamExpand ==
    /\ mode = "beam"
    /\ pc = "loop"
    /\ w < beam_width
    /\ ~heap_is_empty(now_beam)
    /\ \E now_state \in heap_pop(now_beam) :
          /\ now_beam' = heap_remove(now_beam, now_state)
          /\ next_beam' = beam_push(next_beam, now_state, d)
    /\ w' = w + 1
    /\ UNCHANGED <<mode, pc, state, auto, root, result, args, best_state, d,
                   completed, chokudaiVars, localVars>>

\* the end of a round: swap the frontiers, peek the best node, stop at a
\* terminal best node or at beam_depth rounds and return its first_action
BeamRoundEnd ==
    /\ mode = "beam"
    /\ pc = "loop"
    /\ (w = beam_width \/ heap_is_empty(now_beam))
    /\ IF heap_is_empty(next_beam)
       THEN /\ pc' = "panic"
            /\ UNCHANGED <<result, now_beam, next_beam, best_state, d, w, completed>>
       ELSE /\ now_beam' = next_beam
            /\ completed' = next_beam
            /\ next_beam' = EmptyBag
            /\ best_state' \in heap_top(next_beam)
            /\ d' = d + 1
            /\ w' = 0
            /\ IF is_done(best_state') \/ d' = beam_depth
               THEN IF best_state'.first_action = None
                    THEN pc' = "panic" /\ result' = result
                    ELSE pc' = "returned" /\ result' = best_state'.first_action
               ELSE pc' = "loop" /\ result' = result
    /\ UNCHANGED <<mode, state, auto, root, args, chokudaiVars, localVars>>

NextBeam == BeamCall \/ BeamExpand \/ BeamRoundEnd \/ Play

SpecBeam == InitBeam /\ [][NextBeam]_vars

\* ------------------------------------------------------------------ C6
\* the states k moves away from s, each with the first move of a path to it
RECURSIVE Reach(_, _)
Reach(s, k) ==
    IF k = 0 THEN { [first |-> None, node |-> s] }
    ELSE { [first |-> IF r.first = None THEN a ELSE r.first,
            node |-> advance(r.node, a)] :
           <<r, a>> \in { p \in Reach(s, k - 1) \X (0 .. 3) :
                            p[2] \in Range(legal_actions(p[1].node)) } }

SameGame(s, u) ==
    /\ s.character = u.character
    /\ s.points = u.points
    /\ s.game_score = u.game_score
    /\ s.turn = u.turn

\* C6: beam_search_action returns the first_action of a node of the largest
\* evaluated score of the final frontier; that action is the first move of a
\* path of legal moves from the root to that node, and is legal at the root.
BeamReturnsFirstMoveOfBest ==
    (mode = "beam" /\ pc \in {"loop", "returned", "panic"}) =>
        /\ pc # "panic"
        /\ pc = "returned" =>
              /\ best_state \in heap_top(now_beam)
              /\ result = best_state.first_action
              /\ result \in Range(legal_actions(root))
              /\ \E r \in Reach(root, d) :
                    r.first = result /\ SameGame(r.node, best_state)

\* a search of two rounds returned the first move towards a scoring node two
\* moves away, while the frontier also held nodes reached by another first move
BeamWitness ==
    /\ mode = "beam"
    /\ pc = "returned"
    /\ d = 2
    /\ best_state.evaluated_score > 0
    /\ best_state.character # root.character
    /\ \E n \in BagToSet(now_beam) : n.first_action # result

\* ---------------------------------------------- beam search, time-bounded
\* the answer at expiry taken from the frontier under construction
expired_return_partial(best) ==
    IF heap_is_empty(next_beam) THEN best.first_action
    ELSE (CHOOSE n \in heap_top(next_beam) : TRUE).first_action

\* return best_state.first_action.unwrap() at an expired deadline
expired_return(best) == best.first_action

InitBeamTime ==
    /\ mode = "tbeam"
    /\ pc = "idle"
    /\ state \in NewMazeStates
    /\ auto = IdleAuto
    /\ SearchIdle
    /\ LocalIdle
    /\ beam_width \in 1 .. MaxBeamWidth
    /\ beam_depth = 0
    /\ beam_number = 0

\* beam_search_with_time_threshold_action, up to the loop
TBeamCall ==
    /\ mode = "tbeam"
    /\ pc = "idle"
    /\ ~is_done(state)
    /\ SearchStart
    /\ pc' = "loop"
    /\ UNCHANGED <<mode, state, auto, args, localVars>>

\* is_time_over() answers true before a pop: the elapsed time can pass the
\* threshold at any of these checks, and the first such answer ends the call
TBeamExpire ==
    /\ mode = "tbeam"
    /\ pc = "loop"
    /\ w < beam_width
    /\ IF best_state.first_action = None
       THEN pc' = "panic" /\ result' = result
       ELSE pc' = "expired" /\ result' = expired_return(best_state)
    /\ UNCHANGED <<mode, state, auto, root, args, now_beam, next_beam,
                   best_state, d, w, completed, chokudaiVars, localVars>>

\* is_time_over() answers false: pop a node, push its successors
TBeamExpand ==
    /\ mode = "tbeam"
    /\ pc = "loop"
    /\ w < beam_width
    /\ ~heap_is_empty(now_beam)
    /\ \E now_state \in heap_pop(now_beam) :
          /\ now_beam' = heap_remove(now_beam, now_state)
          /\ next_beam' = tbeam_push(next_beam, now_state, d)
    /\ w' = w + 1
    /\ UNCHANGED <<mode, pc, state, auto, root, result, args, best_state, d,
                   completed, chokudaiVars, localVars>>

\* the end of a round (is_time_over() answered false if it was asked): swap
\* the frontiers, peek the best node, return at a terminal best node
TBeamRoundEnd ==
    /\ mode = "tbeam"
    /\ pc = "loop"
    /\ (w = beam_width \/ heap_is_empty(now_beam))
    /\ IF heap_is_empty(next_beam)
       THEN /\ pc' = "panic"
            /\ UNCHANGED <<result, now_beam, next_beam, best_state, d, w, completed>>
       ELSE /\ now_beam' = next_beam
            /\ completed' = next_beam
            /\ next_beam' = EmptyBag
            /\ best_state' \in heap_top(next_beam)
            /\ d' = d + 1
            /\ w' = 0
            /\ IF is_done(best_state')
               THEN IF best_state'.first_action = None
                    THEN pc' = "panic" /\ result' = result
                    ELSE pc' = "returned" /\ result' = best_state'.first_action
               ELSE pc' = "loop" /\ result' = result
    /\ UNCHANGED <<mode, state, auto, root, args, chokudaiVars, localVars>>

NextBeamTime == TBeamCall \/ TBeamExpire \/ TBeamExpand \/ TBeamRoundEnd \/ Play

SpecBeamTime == InitBeamTime /\ [][NextBeamTime]_vars

\* ------------------------------------------------------------------ C7
\* C7: when the deadline is found expired after at least one completed round,
\* the action returned is the first_action of best_state, a node of the
\* largest evaluated score of the frontier the last completed round produced,
\* whatever the interrupted round has pushed on the next frontier.
ExpiryReturnsLastCompletedRound ==
    (mode = "tbeam" /\ pc = "expired") =>
        /\ d >= 1
        /\ best_state \in heap_top(completed)
        /\ result = best_state.first_action

\* expiry in the middle of the second round, the half built frontier holding a
\* node that scores more than best_state and was reached by another first move
ExpiryWitness ==
    /\ mode = "tbeam"
    /\ pc = "expired"
    /\ d = 1
    /\ w >= 1
    /\ \E n \in BagToSet(next_beam) :
          /\ n.evaluated_score > best_state.evaluated_score
          /\ n.first_action # result

\* ------------------------------------------------------------------ C8
\* C8: the evaluated score of best_state at the end of a completed round is at
\* least the one recorded at the end of the round before.
BestOfRoundsNonDecreasing ==
    [][(mode = "tbeam" /\ d >= 1 /\ d' = d + 1) =>
          best_state'.evaluated_score >= best_state.evaluated_score]_vars

\* three rounds completed and the best node scores
BestOfRoundsWitness ==
    /\ mode = "tbeam"
    /\ d = 3
    /\ best_state.evaluated_score > 0

\* ------------------------------------------------------ chokudai search
\* largest beam_number a search is called with
MaxBeamNumber == 2
\* passes a time-bounded search makes at most before its deadline expires
MaxPasses == 2

\* vec![BinaryHeap::new(); beam_depth + 1] with the root pushed on beam[0];
\* the frontier of depth k is beam[k + 1]
ChokudaiStart ==
    /\ root' = state
    /\ result' = None
    /\ beam' = [k \in 1 .. (beam_depth + 1) |->
                   IF k = 1 THEN SetToBag({state}) ELSE EmptyBag]
    /\ t' = 0
    /\ w' = 0
    /\ pass' = 0
    /\ UNCHANGED <<now_beam, next_beam, best_state, d, completed>>

\* the final scan started at the shallow end
RECURSIVE scan_up(_, _)
scan_up(frontiers, k) ==
    IF k = 0 THEN 0
    ELSE LET j == Len(frontiers) + 1 - k
         IN IF ~heap_is_empty(frontiers[j]) THEN j ELSE scan_up(frontiers, k - 1)

\* for t in (0..=beam_depth).rev(): the first non-empty frontier among
\* frontiers[k], frontiers[k - 1], .., 0 if there is none
RECURSIVE scan(_, _)
scan(frontiers, k) ==
    IF k = 0 THEN 0
    ELSE IF ~heap_is_empty(frontiers[k]) THEN k ELSE scan(frontiers, k - 1)

\* the values the final scan may return: beam[t].peek()?.first_action
scan_answers(frontiers) ==
    LET k == scan(frontiers, Len(frontiers))
    IN IF k = 0 THEN {None}
       ELSE { n.first_action : n \in heap_top(frontiers[k]) }

\* the inner loop leaves depth t: width used up, frontier empty or top terminal
SweepOver ==
    \/ w = beam_width
    \/ heap_is_empty(beam[t + 1])
    \/ \E n \in heap_top(beam[t + 1]) : is_done(n)

InitChokudai ==
    /\ mode = "chokudai"
    /\ pc = "idle"
    /\ state \in NewMazeStates
    /\ auto = IdleAuto
    /\ SearchIdle
    /\ LocalIdle
    /\ beam_width \in 1 .. MaxBeamWidth
    /\ beam_depth \in 1 .. MaxBeamDepth
    /\ beam_number \in 1 .. MaxBeamNumber

\* chokudai_search_action, up to the loops
ChokudaiCall ==
    /\ mode = "chokudai"
    /\ pc = "idle"
    /\ ~is_done(state)
    /\ ChokudaiStart
    /\ pc' = "loop"
    /\ UNCHANGED <<mode, state, auto, args, localVars>>

\* one turn of the innermost loop: peek, pop, push the successors one deeper
ChokudaiExpand ==
    /\ mode = "chokudai"
    /\ pc = "loop"
    /\ w < beam_width
    /\ ~heap_is_empty(beam[t + 1])
    /\ \E now_state \in heap_top(beam[t + 1]) :
          /\ ~is_done(now_state)
          /\ beam' = [beam EXCEPT
                         ![t + 1] = heap_remove(@, now_state),
                         ![t + 2] = chokudai_push(@, now_state, t)]
    /\ w' = w + 1
    /\ UNCHANGED <<mode, pc, state, auto, root, result, args, now_beam,
                   next_beam, best_state, d, completed, t, pass, localVars>>

\* the sweep goes one depth deeper
ChokudaiNextDepth ==
    /\ mode = "chokudai"
    /\ pc = "loop"
    /\ SweepOver
    /\ t + 1 < beam_depth
    /\ t' = t + 1
    /\ w' = 0
    /\ UNCHANGED <<mode, pc, state, auto, root, result, args, now_beam,
                   next_beam, best_state, d, completed, beam, pass,
                   localVars>>

\* the last depth of a pass is done and passes remain
ChokudaiNextPass ==
    /\ mode = "chokudai"
    /\ pc = "loop"
    /\ SweepOver
    /\ t + 1 = beam_depth
    /\ pass + 1 < beam_number
    /\ pass' = pass + 1
    /\ t' = 0
    /\ w' = 0
    /\ UNCHANGED <<mode, pc, state, auto, root, result, args, now_beam,
                   next_beam, best_state, d, completed, beam, localVars>>

\* the last pass is done: scan the frontiers from the deepest, return
ChokudaiReturn ==
    /\ mode = "chokudai"
    /\ pc = "loop"
    /\ SweepOver
    /\ t + 1 = beam_depth
    /\ pass + 1 = beam_number
    /\ pass' = pass + 1
    /\ result' \in scan_answers(beam)
    /\ pc' = IF result' = None THEN "none" ELSE "returned"
    /\ UNCHANGED <<mode, state, auto, root, args, now_beam, next_beam,
                   best_state, d, w, completed, beam, t, localVars>>

NextChokudai ==
    ChokudaiCall \/ ChokudaiExpand \/ ChokudaiNextDepth \/ ChokudaiNextPass
        \/ ChokudaiReturn \/ Play

SpecChokudai == InitChokudai /\ [][NextChokudai]_vars

\* ------------------------------------------------------------------ C4
\* C4: the value chokudai_search_action returns is the first_action of a node
\* of the largest evaluated score of the deepest frontier that holds a node.
ChokudaiDepthPriority ==
    (mode = "chokudai" /\ pc \in {"returned", "none"}) =>
        \E k \in 1 .. Len(beam) :
            /\ ~heap_is_empty(beam[k])
            /\ \A j \in (k + 1) .. Len(beam) : heap_is_empty(beam[j])
            /\ \E n \in heap_top(beam[k]) : result = n.first_action

\* at the return the deepest frontier holds nodes and a shallower frontier
\* holds a node that scores as much as any of them and carries a first_action
\* none of them carries
ChokudaiDepthWitness ==
    /\ mode = "chokudai"
    /\ pc = "returned"
    /\ Len(beam) = 3
    /\ ~heap_is_empty(beam[3])
    /\ \E n \in BagToSet(beam[2]) :
          /\ n.evaluated_score > 0
          /\ \A m \in BagToSet(beam[3]) :
                /\ m.evaluated_score <= n.evaluated_score
                /\ m.first_action # n.first_action

\* ---------------------------------------------- chokudai search, time-bounded
InitChokudaiTime ==
    /\ mode = "tchokudai"
    /\ pc = "idle"
    /\ state \in NewMazeStates
    /\ auto = IdleAuto
    /\ SearchIdle
    /\ LocalIdle
    /\ beam_width \in 1 .. MaxBeamWidth
    /\ beam_depth \in 1 .. MaxBeamDepth
    /\ beam_number = 0

\* chokudai_search_with_time_threshold_action, up to the loops
TChokudaiCall ==
    /\ mode = "tchokudai"
    /\ pc = "idle"
    /\ ~is_done(state)
    /\ ChokudaiStart
    /\ pc' = "loop"
    /\ UNCHANGED <<mode, state, auto, args, localVars>>

\* one turn of the innermost loop: peek, pop, push the successors one deeper
TChokudaiExpand ==
    /\ mode = "tchokudai"
    /\ pc = "loop"
    /\ w < beam_width
    /\ ~heap_is_empty(beam[t + 1])
    /\ \E now_state \in heap_top(beam[t + 1]) :
          /\ ~is_done(now_state)
          /\ beam' = [beam EXCEPT
                         ![t + 1] = heap_remove(@, now_state),
                         ![t + 2] = tchokudai_push(@, now_state, t)]
    /\ w' = w + 1
    /\ UNCHANGED <<mode, pc, state, auto, root, result, args, now_beam,
                   next_beam, best_state, d, completed, t, pass, localVars>>

\* the sweep goes one depth deeper
TChokudaiNextDepth ==
    /\ mode = "tchokudai"
    /\ pc = "loop"
    /\ SweepOver
    /\ t + 1 < beam_depth
    /\ t' = t + 1
    /\ w' = 0
    /\ UNCHANGED <<mode, pc, state, auto, root, result, args, now_beam,
                   next_beam, best_state, d, completed, beam, pass,
                   localVars>>

\* the last depth of a pass is done and is_time_over() answers false
TChokudaiNextPass ==
    /\ mode = "tchokudai"
    /\ pc = "loop"
    /\ SweepOver
    /\ t + 1 = beam_depth
    /\ pass + 1 < MaxPasses
    /\ pass' = pass + 1
    /\ t' = 0
    /\ w' = 0
    /\ UNCHANGED <<mode, pc, state, auto, root, result, args, now_beam,
                   next_beam, best_state, d, completed, beam, localVars>>

\* the last depth of a pass is done and is_time_over() answers true, however
\* long ago the deadline passed: scan the frontiers from the deepest, return
TChokudaiExpire ==
    /\ mode = "tchokudai"
    /\ pc = "loop"
    /\ SweepOver
    /\ t + 1 = beam_depth
    /\ pass' = pass + 1
    /\ result' \in scan_answers(beam)
    /\ pc' = IF result' = None THEN "none" ELSE "returned"
    /\ UNCHANGED <<mode, state, auto, root, args, now_beam, next_beam,
                   best_state, d, w, completed, beam, t, localVars>>

NextChokudaiTime ==
    TChokudaiCall \/ TChokudaiExpand \/ TChokudaiNextDepth \/ TChokudaiNextPass
        \/ TChokudaiExpire \/ Play

SpecChokudaiTime == InitChokudaiTime /\ [][NextChokudaiTime]_vars

\* ------------------------------------------------------------------ C9
\* C9: called on a non-terminal state with beam_width >= 1 and
\* beam_depth >= 1, the time-bounded chokudai search returns Some(a) with a
\* legal at the root, after at least one complete pass, whenever it expires.
TimedChokudaiReturnsLegalAction ==
    (mode = "tchokudai" /\ pc \in {"returned", "none"}) =>
        /\ pc = "returned"
        /\ pass >= 1
        /\ result \in Range(legal_actions(root))

\* the deadline was over at its first check, after a single pass, and the
\* answer comes from the deepest frontier
TimedChokudaiWitness ==
    /\ mode = "tchokudai"
    /\ pc = "returned"
    /\ pass = 1
    /\ beam_depth = 2
    /\ heap_is_empty(beam[1])
    /\ ~heap_is_empty(beam[3])

\* ----------------------------------------------------------------- C11
\* a time-bounded chokudai search is between its seeding and its caller's
\* next step
TChokudaiRunning ==
    mode = "tchokudai" /\ pc \in {"loop", "returned", "none"}

\* C11 as stated: frontier 0 of the time-bounded chokudai search is non-empty
\* at every point of the search, the final scan included.
FrontierZeroAlwaysNonEmpty ==
    TChokudaiRunning => ~heap_is_empty(beam[1])

\* C11 as amended: at every point of the time-bounded chokudai search, the
\* final scan included, some frontier is non-empty; frontier 0 holds the root
\* alone until the first expansion pops it and is empty from then on.
SomeFrontierNonEmpty ==
    TChokudaiRunning =>
        /\ \E k \in 1 .. Len(beam) : ~heap_is_empty(beam[k])
        /\ IF pass = 0 /\ t = 0 /\ w = 0
           THEN beam[1] = SetToBag({root})
           ELSE heap_is_empty(beam[1])

\* the final scan ran after two passes over a single depth: frontier 0 is
\* empty and the answer comes from frontier 1
SomeFrontierWitness ==
    /\ mode = "tchokudai"
    /\ pc = "returned"
    /\ pass = 2
    /\ beam_depth = 1
    /\ heap_is_empty(beam[1])
    /\ ~heap_is_empty(beam[2])

\* ------------------------------------------- both chokudai variants
\* a caller that runs either variant; the two share the frontiers
InitChokudaiBoth == InitChokudai \/ InitChokudaiTime

NextChokudaiBoth == NextChokudai \/ NextChokudaiTime

SpecChokudaiBoth == InitChokudaiBoth /\ [][NextChokudaiBoth]_vars

\* ----------------------------------------------------------------- C12
\* either chokudai search is inside its loops
ChokudaiLooping ==
    mode \in {"chokudai", "tchokudai"} /\ pc = "loop"

\* n is a node of the last turn
Terminal(n) == n.turn = END_TURN

\* the successor of n by action a as the loop body builds it at depth k
SuccessorOf(n, a, k) ==
    LET s == evaluate_score(advance(n, a))
    IN IF k = 0 THEN [s EXCEPT !.first_action = a] ELSE s

\* the successors of n by its legal actions, with their multiplicities
SuccessorBag(n, k) ==
    LET acts == legal_actions(n)
        succs == { SuccessorOf(n, acts[j], k) : j \in 1 .. Len(acts) }
    IN [s \in succs |->
           Cardinality({ j \in 1 .. Len(acts) : SuccessorOf(n, acts[j], k) = s })]

\* every node of frontier k is k turns after the root and not past END_TURN,
\* so the frontiers deeper than END_TURN - root.turn are empty
FrontierTurns ==
    (mode \in {"chokudai", "tchokudai"} /\ pc \in {"loop", "returned", "none"}) =>
        \A k \in 1 .. Len(beam) :
            /\ \A n \in BagToSet(beam[k]) :
                  n.turn = root.turn + (k - 1) /\ n.turn <= END_TURN
            /\ (k - 1) > END_TURN - root.turn => heap_is_empty(beam[k])

\* a step taken with a terminal node at the top of the current frontier
\* leaves every frontier as it is and leaves the current depth
TerminalTopEndsDepth ==
    (ChokudaiLooping /\ \E n \in heap_top(beam[t + 1]) : Terminal(n)) =>
        /\ beam' = beam
        /\ t' # t \/ pass' # pass

\* a step inside the loops that changes a frontier takes one non-terminal
\* node of the largest score off the current frontier and puts exactly its
\* legal successors on the next one
RemovalIsExpansion ==
    (ChokudaiLooping /\ pc' = "loop" /\ beam' # beam) =>
        \E n \in heap_top(beam[t + 1]) :
            /\ ~Terminal(n)
            /\ beam' = [beam EXCEPT
                           ![t + 1] = @ (-) SetToBag({n}),
                           ![t + 2] = @ (+) SuccessorBag(n, t)]

\* while a search runs, through its final scan, no frontier loses a terminal
\* node
TerminalNeverLeaves ==
    (ChokudaiLooping /\ pc' \in {"loop", "returned", "none"}) =>
        /\ Len(beam') = Len(beam)
        /\ \A k \in 1 .. Len(beam) : \A n \in BagToSet(beam[k]) :
              Terminal(n) => CopiesIn(n, beam'[k]) >= CopiesIn(n, beam[k])

\* C12: in both chokudai variants a terminal node at the top of a depth's
\* frontier is not popped or expanded, stays in that frontier and ends the
\* work on that depth for the pass; every node of frontier t has
\* turn = root.turn + t <= END_TURN, no frontier deeper than
\* END_TURN - root.turn receives a node, and a node leaves a frontier only
\* in the step that pushes all its legal successors on the next frontier.
TerminalNodesAreKept ==
    /\ [](FrontierTurns)
    /\ [][TerminalTopEndsDepth /\ RemovalIsExpansion /\ TerminalNeverLeaves]_vars

\* a second pass of chokudai_search_action comes back to a depth whose
\* frontier still holds the terminal nodes the first pass left there, with
\* width to spare
TerminalKeptWitness ==
    /\ mode = "chokudai"
    /\ pc = "loop"
    /\ pass = 1
    /\ t = 1
    /\ w = 0
    /\ ~heap_is_empty(beam[2])
    /\ \A n \in BagToSet(beam[2]) : Terminal(n)
    /\ heap_is_empty(beam[3])

\* the time-bounded variant reaches the same situation
TerminalKeptTimedReached ==
    /\ mode = "tchokudai"
    /\ pc = "loop"
    /\ pass = 1
    /\ t = 1
    /\ w = 0
    /\ ~heap_is_empty(beam[2])
    /\ \A n \in BagToSet(beam[2]) : Terminal(n)
    /\ heap_is_empty(beam[3])

\* --------------------------------------------------------- local search
\* iterations a local search is called with
MaxNumber == 2
\* a grid handed to a local search has at most MaxRichAuto non-zero cells
MaxRichAuto == 1

AutoGrids ==
    UNION { { GridOf(S, f) : f \in [S -> 1 .. MaxPoint] } :
            S \in { T \in SUBSET Cells : Cardinality(T) <= MaxRichAuto } }

\* AutoMoveMazeState::new(): every character on (0, 0)
FreshAutoStates ==
    { [game_score |-> 0, evaluated_score |-> 0, points |-> g, turn |-> 0,
       characters |-> [id \in CharIds |-> Coord(0, 0)]] : g \in AutoGrids }

\* get_score tabulated over the placements on the grids of local search
ScoreTable ==
    [s \in UNION { { [f EXCEPT !.characters = p] : p \in Placements } :
                   f \in FreshAutoStates } |-> get_score(s)]

\* now_state.get_score(false), next_state.get_score(false)
Score(s) == ScoreTable[s]

\* init_characters: every character on a random cell
init_characters(s) == { [s EXCEPT !.characters = p] : p \in Placements }

\* transition: one random character on a random cell
transition(s) ==
    { [s EXCEPT !.characters[id] = Coord(c[2], c[1])] :
      id \in CharIds, c \in Cells }

\* hill climbing that also takes a candidate of equal score
hill_accepts_le(best, next) == best <= next

\* the acceptance test of hill_climb
hill_accepts(best, next) == best < next

InitHill ==
    /\ mode = "hill"
    /\ pc = "idle"
    /\ state = IdleMaze
    /\ auto \in FreshAutoStates
    /\ SearchIdle
    /\ NoArguments
    /\ LocalIdle

\* hill_climb, up to the loop
HillCall ==
    /\ mode = "hill"
    /\ pc = "idle"
    /\ number' = MaxNumber
    /\ now_auto' \in init_characters(auto)
    /\ best_score' = Score(now_auto')
    /\ initial_score' = best_score'
    /\ next_auto' = now_auto'
    /\ next_score' = best_score'
    /\ iter' = 0
    /\ pc' = "loop"
    /\ UNCHANGED <<mode, state, auto, searchVars, now_score, best_auto, max_seen>>

\* one iteration of hill_climb
HillStep ==
    /\ mode = "hill"
    /\ pc = "loop"
    /\ iter < number
    /\ next_auto' \in transition(now_auto)
    /\ next_score' = Score(next_auto')
    /\ IF hill_accepts(best_score, next_score')
       THEN best_score' = next_score' /\ now_auto' = next_auto'
       ELSE UNCHANGED <<best_score, now_auto>>
    /\ iter' = iter + 1
    /\ UNCHANGED <<mode, pc, state, auto, searchVars, number, now_score,
                   best_auto, initial_score, max_seen>>

\* hill_climb returns now_state, which its caller binds to state
HillReturn ==
    /\ mode = "hill"
    /\ pc = "loop"
    /\ iter = number
    /\ auto' = now_auto
    /\ pc' = "returned"
    /\ UNCHANGED <<mode, state, searchVars, localVars>>

NextHill == HillCall \/ HillStep \/ HillReturn

SpecHill == InitHill /\ [][NextHill]_vars

\* ------------------------------------------------------------------ C5
\* C5: an iteration of hill_climb replaces the current state by the candidate
\* when the candidate's rollout score is strictly greater than the accepted
\* score and keeps it otherwise; the accepted score never decreases, it is the
\* rollout score of the current state, and the state returned scores at least
\* what the initial placement scored.
HillIteration ==
    (mode = "hill" /\ iter' = iter + 1) =>
        /\ LET candidate == Score(next_auto')
           IN IF candidate > best_score
              THEN now_auto' = next_auto' /\ best_score' = candidate
              ELSE now_auto' = now_auto /\ best_score' = best_score
        /\ best_score' >= best_score
        /\ best_score' = Score(now_auto')
        /\ best_score' >= initial_score

HillResult ==
    (mode = "hill" /\ pc' = "returned") =>
        LET returned == Score(auto')
        IN returned = best_score /\ returned >= initial_score

HillClimbMonotone == [][HillIteration /\ HillResult]_vars

\* hill_climb returned a placement that scores more than the initial one,
\* after a last candidate of equal score that it did not take
HillWitness ==
    /\ mode = "hill"
    /\ pc = "returned"
    /\ best_score > initial_score
    /\ next_score = best_score
    /\ next_auto # auto

\* ---------------------------------------------------- simulated annealing
\* simulated_annealing returning the state the walk ended on
sa_result_now(best, now) == now

\* the value simulated_annealing returns
sa_result(best, now) == best

\* is_force_next: exp((next_score - now_score) / temp) > gen_range(0.0..1.0),
\* for the positive temperatures the schedule of the callers yields: certain
\* for a candidate that is not worse, either way for a worse one
is_force_next(next, now) == IF next - now >= 0 THEN {TRUE} ELSE BOOLEAN

Max(a, b) == IF a >= b THEN a ELSE b

InitSA ==
    /\ mode = "sa"
    /\ pc = "idle"
    /\ state = IdleMaze
    /\ auto \in FreshAutoStates
    /\ SearchIdle
    /\ NoArguments
    /\ LocalIdle

\* simulated_annealing, up to the loop
SACall ==
    /\ mode = "sa"
    /\ pc = "idle"
    /\ number' = MaxNumber
    /\ now_auto' \in init_characters(auto)
    /\ best_score' = Score(now_auto')
    /\ now_score' = best_score'
    /\ best_auto' = now_auto'
    /\ initial_score' = best_score'
    /\ max_seen' = best_score'
    /\ next_auto' = now_auto'
    /\ next_score' = best_score'
    /\ iter' = 0
    /\ pc' = "loop"
    /\ UNCHANGED <<mode, state, auto, searchVars>>

\* one iteration of simulated_annealing
SAStep ==
    /\ mode = "sa"
    /\ pc = "loop"
    /\ iter < number
    /\ next_auto' \in transition(now_auto)
    /\ next_score' = Score(next_auto')
    /\ \E force \in is_force_next(next_score', now_score) :
          IF now_score < next_score' \/ force
          THEN now_score' = next_score' /\ now_auto' = next_auto'
          ELSE UNCHANGED <<now_score, now_auto>>
    /\ IF best_score < next_score'
       THEN best_score' = next_score' /\ best_auto' = next_auto'
       ELSE UNCHANGED <<best_score, best_auto>>
    /\ max_seen' = Max(max_seen, next_score')
    /\ iter' = iter + 1
    /\ UNCHANGED <<mode, pc, state, auto, searchVars, number, initial_score>>

\* simulated_annealing returns best_state, which its caller binds to state
SAReturn ==
    /\ mode = "sa"
    /\ pc = "loop"
    /\ iter = number
    /\ auto' = sa_result(best_auto, now_auto)
    /\ pc' = "returned"
    /\ UNCHANGED <<mode, state, searchVars, localVars>>

NextSA == SACall \/ SAStep \/ SAReturn

SpecSA == InitSA /\ [][NextSA]_vars

\* ----------------------------------------------------------------- C10
\* C10: a candidate that scores strictly more than the current state becomes
\* the current state, and the state simulated_annealing returns (the one it
\* would return if the iteration just made were the last, too) scores at
\* least what the initial placement and every candidate generated scored,
\* whatever the walk accepted.
SAIteration ==
    (mode = "sa" /\ iter' = iter + 1) =>
        /\ LET candidate == Score(next_auto')
           IN candidate > now_score =>
                 (now_auto' = next_auto' /\ now_score' = candidate)
        /\ now_score' = Score(now_auto')
        /\ Score(sa_result(best_auto', now_auto')) >= max_seen'

SAResult ==
    (mode = "sa" /\ pc' = "returned") =>
        LET returned == Score(auto')
        IN /\ returned >= initial_score
           /\ returned >= max_seen
           /\ returned >= now_score

SAReturnsBestSeen == [][SAIteration /\ SAResult]_vars

\* simulated_annealing returned a placement that scores more than both the
\* initial placement and the one the walk ended on
SAWitness ==
    /\ mode = "sa"
    /\ pc = "returned"
    /\ Score(auto) > now_score
    /\ Score(auto) > initial_score
    /\ auto # now_auto
====
